---- MODULE Spec2Model ----
(***************************************************************************)
(* A model of udp.cpp: the stop-and-wait pair clientStopWait /             *)
(* serverReliable and the sliding-window pair clientSlidingWindow /        *)
(* serverEarlyRetrans (with its helper ackAdvance), running over a         *)
(* datagram transport that may lose, duplicate and reorder datagrams.      *)
(*                                                                         *)
(* Each action is one pass of the code between two socket calls that can   *)
(* block or poll: the peer may run in between, and nowhere else.           *)
(* The Timer is not modelled by a clock: whenever the code polls and finds *)
(* nothing, the lap may or may not have exceeded MAX_TIME.                 *)
(***************************************************************************)
EXTENDS Integers, Sequences, FiniteSets, TLC

\* ---------------------------------------------------------------- bounds
\* Largest number of messages of a session (the parameter max).
MaxMsgs == 4
\* Largest window (the parameter windowSize).
MaxWindow == 2
\* Distinct datagrams the transport holds in one direction; a datagram sent
\* into a full transport is lost.
MaxInFlight == 2
\* The retransmission counter saturates here (the code's int does not).
MaxRetrans == 2

VARIABLES
    max,              \* parameter max of all four functions
    windowSize,       \* parameter windowSize of the sliding-window pair
    frames,           \* datagrams in flight client -> server: <<seq, msg>>
    acks,             \* datagrams in flight server -> client: the int sent
    cpc,              \* the client's position
    msgNum,           \* client: loop variable msgNum
    retrans,          \* client: retrans
    seqNum,           \* clientStopWait: seqNum
    lastAckRec,       \* clientSlidingWindow: lastAckRec
    lastFrameSent,    \* clientSlidingWindow: lastFrameSent
    cBuffer,          \* clientSlidingWindow: buffer[], <<>> where never written
    spc,              \* the server's position
    msgToAck,         \* server: loop variable msgToAck
    lastAckSent,      \* serverEarlyRetrans: lastAckSent
    largestAccFrame,  \* serverEarlyRetrans: largestAccFrame
    sBuffer,          \* serverEarlyRetrans: buffer[]
    \* history variables: they record what happened and steer nothing
    cSent,            \* messages clientSlidingWindow has sent (first sends)
    cReleased,        \* sum of the advances clientSlidingWindow applied
    sReceived,        \* message indices of the frames the server received
    sFolded,          \* how many times lastAckSent advanced
    sAcceptCnt,       \* per sequence number: frames received with offset > 0
    sFoldCnt,         \* per sequence number: advances of lastAckSent over it
    sAckOut,          \* the values the server's last receive step gave ackTo,
                      \* the last of them being message[0] when the step ends
    \* the transport's plan in the scenario specifications
    lossPlan          \* <<n, k>>: the acknowledgment of message n is still to
                      \* be lost k times; <<0, 0>> where nothing is planned

vars == <<max, windowSize, frames, acks, cpc, msgNum, retrans, seqNum,
          lastAckRec, lastFrameSent, cBuffer, spc, msgToAck,
          lastAckSent, largestAccFrame, sBuffer,
          cSent, cReleased, sReceived, sFolded, sAcceptCnt, sFoldCnt, sAckOut,
          lossPlan>>

clientVars == <<cpc, msgNum, retrans, seqNum, lastAckRec, lastFrameSent,
                cBuffer, cSent, cReleased>>

serverVars == <<spc, msgToAck, lastAckSent, largestAccFrame, sBuffer,
                sReceived, sFolded, sAcceptCnt, sFoldCnt,
                sAckOut>>

params == <<max, windowSize>>

\* No action of the two programs reads or writes the transport's plan.
plan == <<lossPlan>>

\* ------------------------------------------------------------- arithmetic
\* The % of C++ on ints: the result takes the sign of the dividend.
CRem(a, b) == IF a >= 0 THEN a % b ELSE 0 - ((0 - a) % b)

\* a ^ b of C++ for the one-bit values the stop-and-wait pair exchanges.
BitXor(a, b) == IF a = b THEN 0 ELSE 1

\* Bump that counts nothing.
BumpNone(r, n) == r

\* ++retrans and retrans += n, saturating at MaxRetrans.
Bump(r, n) == IF r + n > MaxRetrans THEN MaxRetrans ELSE r + n

\* ------------------------------------------------------------- transport
\* sendTo / ackTo: the datagram joins those in flight, unless the transport
\* is full. Equal datagrams in flight are one element: the transport may
\* deliver any of them again (duplication) or never (loss).
Put(net, d) ==
    IF d \in net \/ Cardinality(net) >= MaxInFlight THEN net ELSE net \cup {d}

\* recvFrom returned datagram d: it leaves the transport unless the
\* transport duplicated it.
Take(net, d, keep) == IF keep THEN net ELSE net \ {d}

\* The transport loses a frame.
LoseFrame(f) ==
    /\ f \in frames
    /\ frames' = frames \ {f}
    /\ UNCHANGED <<acks, params, plan, clientVars, serverVars>>

\* The transport loses an acknowledgment.
LoseAck(a) ==
    /\ a \in acks
    /\ acks' = acks \ {a}
    /\ UNCHANGED <<frames, params, plan, clientVars, serverVars>>

\* ------------------------------------------------- stop-and-wait: client
\* message[0] = msgNum & 1
StopWaitBit(n) == n % 2

\* The frame of message n as it travels: its sequence field and, for the
\* record only, the message it belongs to.
StopWaitFrame(n) == <<StopWaitBit(n), n>>

\* clientStopWait, top of the do loop: sendTo, timeout.start().
SWClientSend ==
    /\ cpc = "send"
    /\ frames' = Put(frames, StopWaitFrame(msgNum))
    /\ cpc' = "wait"
    /\ UNCHANGED <<acks, params, plan, msgNum, retrans, seqNum, lastAckRec,
                   lastFrameSent, cBuffer, cSent, cReleased, serverVars>>

\* clientStopWait, the poll loop found nothing and the lap exceeded
\* MAX_TIME: resend, ++retrans, restart the timer.
SWClientTimeout ==
    /\ cpc = "wait"
    /\ frames' = Put(frames, StopWaitFrame(msgNum))
    /\ retrans' = Bump(retrans, 1)
    /\ UNCHANGED <<acks, params, plan, cpc, msgNum, seqNum, lastAckRec,
                   lastFrameSent, cBuffer, cSent, cReleased, serverVars>>

\* clientStopWait, a datagram is there: recvFrom into seqNum,
\* retrans += seqNum ^ message[0], leave the do loop when seqNum equals
\* message[0] and then ++msgNum and test msgNum < max.
SWClientRecv(a, keep) ==
    /\ cpc = "wait"
    /\ a \in acks
    /\ acks' = Take(acks, a, keep)
    /\ seqNum' = a
    /\ retrans' = Bump(retrans, BitXor(a, StopWaitBit(msgNum)))
    /\ IF a # StopWaitBit(msgNum)
         THEN /\ cpc' = "send"
              /\ msgNum' = msgNum
         ELSE /\ msgNum' = msgNum + 1
              /\ cpc' = IF msgNum + 1 < max THEN "send" ELSE "done"
    /\ UNCHANGED <<frames, params, plan, lastAckRec, lastFrameSent, cBuffer,
                   cSent, cReleased, serverVars>>

\* ------------------------------------------------- stop-and-wait: server
\* The guard of serverReliable's do loop, message[0] != msgToAck & 1, as
\* C++ parses it: (message[0] != msgToAck) & 1.
ReliableLoopGuard(m0, n) == ((IF m0 # n THEN 1 ELSE 0) % 2) # 0

\* serverReliable, one pass of the do loop: recvFrom, ackTo(message[0]),
\* then the guard; when it fails, ++msgToAck and test msgToAck < max.
SWServerRecv(f, keep) ==
    /\ spc = "recv"
    /\ f \in frames
    /\ frames' = Take(frames, f, keep)
    /\ acks' = Put(acks, f[1])
    /\ sAckOut' = <<f[1]>>
    /\ sReceived' = sReceived \cup {f[2]}
    /\ IF ReliableLoopGuard(f[1], msgToAck)
         THEN /\ msgToAck' = msgToAck
              /\ spc' = "recv"
         ELSE /\ msgToAck' = msgToAck + 1
              /\ spc' = IF msgToAck + 1 < max THEN "recv" ELSE "done"
    /\ UNCHANGED <<params, plan, clientVars, lastAckSent, largestAccFrame, sBuffer,
                   sFolded, sAcceptCnt, sFoldCnt>>

\* -------------------------------------------- stop-and-wait: the system
\* Both functions have been called with the same max > 0 and nothing has
\* been sent. The sliding-window state is not used.
StopWaitStart ==
    /\ max \in 1..MaxMsgs
    /\ windowSize = 0
    /\ frames = {}
    /\ acks = {}
    /\ cpc = "send"
    /\ msgNum = 0
    /\ retrans = 0
    /\ seqNum = 1
    /\ lastAckRec = 0
    /\ lastFrameSent = 0
    /\ cBuffer = <<>>
    /\ spc = "recv"
    /\ msgToAck = 0
    /\ lastAckSent = 0
    /\ largestAccFrame = 0
    /\ sBuffer = <<>>
    /\ cSent = 0
    /\ cReleased = 0
    /\ sReceived = {}
    /\ sFolded = 0
    /\ sAcceptCnt = <<>>
    /\ sFoldCnt = <<>>
    /\ sAckOut = <<>>

\* The transport has no plan: it loses what it will.
InitStopWait == StopWaitStart /\ lossPlan = <<0, 0>>

\* The transport loses, duplicates and reorders.
NextStopWait ==
    \/ SWClientSend
    \/ SWClientTimeout
    \/ \E a \in acks, keep \in BOOLEAN : SWClientRecv(a, keep)
    \/ \E f \in frames, keep \in BOOLEAN : SWServerRecv(f, keep)
    \/ \E f \in frames : LoseFrame(f)
    \/ \E a \in acks : LoseAck(a)

SpecStopWait == InitStopWait /\ [][NextStopWait]_vars

\* The transport loses and reorders, and duplicates nothing.
NextStopWaitLossy ==
    \/ SWClientSend
    \/ SWClientTimeout
    \/ \E a \in acks : SWClientRecv(a, FALSE)
    \/ \E f \in frames : SWServerRecv(f, FALSE)
    \/ \E f \in frames : LoseFrame(f)
    \/ \E a \in acks : LoseAck(a)

\* Both processes keep running, the timer expires when nothing arrives, and
\* a datagram that is in flight again and again is delivered at last.
LiveStopWait ==
    /\ InitStopWait
    /\ [][NextStopWaitLossy]_vars
    /\ WF_vars(SWClientSend)
    /\ WF_vars(SWClientTimeout)
    /\ SF_vars(\E a \in acks : SWClientRecv(a, FALSE))
    /\ SF_vars(\E f \in frames : SWServerRecv(f, FALSE))

\* ------------------------------ stop-and-wait: a session with one loss
\* Acknowledgment a is the one the transport plans to lose: the client waits
\* on message lossPlan[1] and a carries that message's bit.
PlannedAck(a) ==
    /\ lossPlan[2] > 0
    /\ msgNum = lossPlan[1]
    /\ a = StopWaitBit(msgNum)

\* The transport loses the acknowledgment it planned to lose.
LosePlannedAck(a) ==
    /\ a \in acks
    /\ PlannedAck(a)
    /\ acks' = acks \ {a}
    /\ lossPlan' = <<lossPlan[1], lossPlan[2] - 1>>
    /\ UNCHANGED <<frames, params, clientVars, serverVars>>

\* Both functions have been called with the same max > 0, and the transport
\* plans to lose the acknowledgment of one of the messages, once.
InitOneLoss ==
    /\ StopWaitStart
    /\ \E n \in 0 .. (max - 1) : lossPlan = <<n, 1>>

\* The planned loss is the only anomaly: nothing else is lost, nothing is
\* duplicated, at most one datagram is in flight so nothing is reordered,
\* and the lap exceeds MAX_TIME only when no datagram is in flight.
NextOneLoss ==
    \/ SWClientSend
    \/ frames = {} /\ acks = {} /\ SWClientTimeout
    \/ \E a \in acks : ~PlannedAck(a) /\ SWClientRecv(a, FALSE)
    \/ \E f \in frames : SWServerRecv(f, FALSE)
    \/ \E a \in acks : LosePlannedAck(a)

SpecOneLoss == InitOneLoss /\ [][NextOneLoss]_vars

\* Both processes keep running and the transport delivers what it does not
\* lose.
LiveOneLoss == SpecOneLoss /\ WF_vars(NextOneLoss)

\* ------------------------------------------------ sliding window: shared
\* seqRange = windowSize * 2 + 1, in clientSlidingWindow, ackAdvance and
\* serverEarlyRetrans alike.
SeqRange(w) == w * 2 + 1

\* The sequence numbers of a session with window w.
Ring(w) == 0 .. (SeqRange(w) - 1)

\* What a read of an int the program never wrote may give: the client reads
\* buffer[] past its end and in slots it has not filled. A sample of the
\* ints: a negative one, those of the ring, one far above the ring.
Indeterminate(w) == {0 - 1} \cup Ring(w) \cup {3 * SeqRange(w)}

\* The message field of a datagram that belongs to no message.
NoMsg == 0 - 1

\* ------------------------------------------------ sliding window: client
\* message[0] = msgNum % seqRange
WindowSeq(n, w) == n % SeqRange(w)

\* The frame of message n as it travels.
WindowFrame(n, w) == <<WindowSeq(n, w), n>>

\* The values a read of buffer[idx] may give. buffer has
\* (windowSize + 1) * max elements; only element lastFrameSent * max of a
\* slot is read back, and the model keeps that one alone.
BufRead(buf, idx, w) ==
    IF idx \in DOMAIN buf /\ buf[idx] # <<>> THEN {buf[idx][1]}
    ELSE Indeterminate(w)

\* ackAdvance once recvFrom has put recAckNum there: the range test and the
\* distance returned. With no datagram the function returns 0.
AckAdvance(recAckNum, lastSeqRec, w) ==
    IF CRem(recAckNum - (lastSeqRec + 1) + SeqRange(w), SeqRange(w)) < w
    THEN CRem(recAckNum - lastSeqRec + SeqRange(w), SeqRange(w))
    ELSE 0

\* The guard of the wait loop: lastAckRec == (lastFrameSent + 1) %
\* (windowSize + 1).
WindowFull(lar, lfs, w) == lar = CRem(lfs + 1, w + 1)

\* The bound of the resend loop: (lastFrameSent - lastAckRec + windowSize +
\* 1) % (windowSize + 1).
ResendCount(lar, lfs, w) == CRem(lfs - lar + w + 1, w + 1)

\* The index the resend loop reads for its i-th frame.
ResendIndex(lar, i, w, m) == CRem(lar + i, w + 1) * m

\* The index the wait loop hands ackAdvance: (lastAckRec + 1) * max.
WaitIndex(lar, m) == (lar + 1) * m

\* The index the call after a send hands ackAdvance:
\* ((lastAckRec + 1) % (windowSize + 1)) * max.
PostIndex(lar, w, m) == CRem(lar + 1, w + 1) * m

\* lastAckRec = (lastAckRec + advance) % (windowSize + 1)
AdvanceEdge(lar, adv, w) == CRem(lar + adv, w + 1)

\* What the resend loop puts on the wire. It hands sendTo the int stored in
\* the slot converted to an address, (char*)buffer[..], not the address of
\* the slot. A stored sequence number is an address in the first page, which
\* is never mapped: the send fails and no datagram leaves. Where the int read
\* is indeterminate the address is any, and a datagram of any content may
\* leave: the model lets its sequence field range over the ring, and one
\* such datagram leave per timeout.
ResendOutcomes(net, buf, lar, lfs, w, m) ==
    LET wild == \E i \in 1 .. ResendCount(lar, lfs, w) :
                    LET idx == ResendIndex(lar, i, w, m)
                    IN ~(idx \in DOMAIN buf /\ buf[idx] # <<>>)
    IN {net} \cup (IF wild THEN {Put(net, <<s, NoMsg>>) : s \in Ring(w)}
                   ELSE {})

\* clientSlidingWindow, the window is full and the lap exceeded MAX_TIME:
\* the resend loop, ++retrans for each pass, timeout.start().
WClientTimeout ==
    /\ cpc = "loop"
    /\ WindowFull(lastAckRec, lastFrameSent, windowSize)
    /\ frames' \in ResendOutcomes(frames, cBuffer, lastAckRec, lastFrameSent,
                                  windowSize, max)
    /\ retrans' = Bump(retrans,
                       ResendCount(lastAckRec, lastFrameSent, windowSize))
    /\ UNCHANGED <<acks, params, plan, cpc, msgNum, seqNum, lastAckRec,
                   lastFrameSent, cBuffer, cSent, cReleased, serverVars>>

\* clientSlidingWindow, the window is full and ackAdvance finds datagram a:
\* lastAckRec moves by what ackAdvance returns for a and the int read at
\* buffer[(lastAckRec + 1) * max].
WClientWaitAck(a, keep) ==
    /\ cpc = "loop"
    /\ WindowFull(lastAckRec, lastFrameSent, windowSize)
    /\ a \in acks
    /\ acks' = Take(acks, a, keep)
    /\ \E g \in BufRead(cBuffer, WaitIndex(lastAckRec, max), windowSize) :
         LET adv == AckAdvance(a, g, windowSize)
         IN /\ lastAckRec' = AdvanceEdge(lastAckRec, adv, windowSize)
            /\ cReleased' = cReleased + adv
    /\ UNCHANGED <<frames, params, plan, cpc, msgNum, retrans, seqNum,
                   lastFrameSent, cBuffer, cSent, serverVars>>

\* clientSlidingWindow, the window is not full: message[0] = msgNum %
\* seqRange, sendTo, advance lastFrameSent, copy the message into its slot.
WClientSend ==
    /\ cpc = "loop"
    /\ ~WindowFull(lastAckRec, lastFrameSent, windowSize)
    /\ frames' = Put(frames, WindowFrame(msgNum, windowSize))
    /\ lastFrameSent' = CRem(lastFrameSent + 1, windowSize + 1)
    /\ cBuffer' = [cBuffer EXCEPT ![lastFrameSent' * max] =
                                      <<WindowSeq(msgNum, windowSize)>>]
    /\ cSent' = cSent + 1
    /\ cpc' = "sent"
    /\ UNCHANGED <<acks, params, plan, msgNum, retrans, seqNum, lastAckRec,
                   cReleased, serverVars>>

\* The end of a pass of the for loop: ++msgNum, msgNum < max, else return.
WClientNext ==
    /\ msgNum' = msgNum + 1
    /\ cpc' = IF msgNum + 1 < max THEN "loop" ELSE "done"

\* clientSlidingWindow after a send, ackAdvance finds datagram a.
WClientPostAck(a, keep) ==
    /\ cpc = "sent"
    /\ a \in acks
    /\ acks' = Take(acks, a, keep)
    /\ \E g \in BufRead(cBuffer, PostIndex(lastAckRec, windowSize, max),
                        windowSize) :
         LET adv == AckAdvance(a, g, windowSize)
         IN /\ lastAckRec' = AdvanceEdge(lastAckRec, adv, windowSize)
            /\ cReleased' = cReleased + adv
    /\ WClientNext
    /\ UNCHANGED <<frames, params, plan, retrans, seqNum, lastFrameSent, cBuffer,
                   cSent, serverVars>>

\* clientSlidingWindow after a send, ackAdvance finds no datagram: it
\* returns 0 and lastAckRec stays.
WClientPostNoAck ==
    /\ cpc = "sent"
    /\ WClientNext
    /\ UNCHANGED <<frames, acks, params, plan, retrans, seqNum, lastAckRec,
                   lastFrameSent, cBuffer, cSent, cReleased, serverVars>>

\* ------------------------------------------------ sliding window: server
\* FrameOffset with the acceptance window one sequence number too wide.
FrameOffsetWide(seq, laf, w) ==
    w + 1 - CRem(SeqRange(w) + laf - seq, SeqRange(w))

\* offset = windowSize - (seqRange + largestAccFrame - message[0]) % seqRange
FrameOffset(seq, laf, w) == w - CRem(SeqRange(w) + laf - seq, SeqRange(w))

\* MarkFrame without the test of the offset.
MarkFrameAlways(buf, seq, off) == [buf EXCEPT ![seq] = TRUE]

\* if (offset > 0) buffer[message[0]] = true
MarkFrame(buf, seq, off) == IF off > 0 THEN [buf EXCEPT ![seq] = TRUE] ELSE buf

\* FoldReady with the slot after next tested in place of the next one.
FoldReadyAhead(buf, las, w) == buf[(las + 2) % SeqRange(w)]

\* The guard of the fold loop: buffer[(lastAckSent + 1) % seqRange] == true
FoldReady(buf, las, w) == buf[(las + 1) % SeqRange(w)]

\* FoldStep that clears no slot.
FoldStepKeep(st, w) ==
    [buf  |-> st.buf,
     las  |-> (st.las + 1) % SeqRange(w),
     laf  |-> (st.laf + 1) % SeqRange(w),
     over |-> Append(st.over, (st.las + 1) % SeqRange(w))]

\* FoldStep that leaves largestAccFrame where it is.
FoldStepLag(st, w) ==
    [buf  |-> [st.buf EXCEPT ![st.las] = FALSE],
     las  |-> (st.las + 1) % SeqRange(w),
     laf  |-> st.laf,
     over |-> Append(st.over, (st.las + 1) % SeqRange(w))]

\* One pass of the fold loop: buffer[lastAckSent] = false, then both edges
\* move by one. over lists the sequence numbers lastAckSent moved onto.
FoldStep(st, w) ==
    [buf  |-> [st.buf EXCEPT ![st.las] = FALSE],
     las  |-> (st.las + 1) % SeqRange(w),
     laf  |-> (st.laf + 1) % SeqRange(w),
     over |-> Append(st.over, (st.las + 1) % SeqRange(w))]

\* The fold loop, run until its guard fails.
RECURSIVE Fold(_, _)
Fold(st, w) ==
    IF FoldReady(st.buf, st.las, w) THEN Fold(FoldStep(st, w), w) ELSE st

\* NextExpected without the + 1: lastAckSent itself is acknowledged.
NextExpectedLast(las, w) == las % SeqRange(w)

\* message[0] = (lastAckSent + 1) % seqRange, the value handed to ackTo.
NextExpected(las, w) == (las + 1) % SeqRange(w)

\* How many times sequence number s occurs in the list over.
Occurrences(over, s) == Cardinality({i \in DOMAIN over : over[i] = s})

\* serverEarlyRetrans, one pass of the do loop: recvFrom, the offset, the
\* mark, the fold loop, the acknowledgment, then the guard offset <= 0; when
\* it fails, ++msgToAck and test msgToAck < max.
WServerRecv(f, keep) ==
    /\ spc = "recv"
    /\ f \in frames
    /\ frames' = Take(frames, f, keep)
    /\ LET off == FrameOffset(f[1], largestAccFrame, windowSize)
           st  == Fold([buf  |-> MarkFrame(sBuffer, f[1], off),
                        las  |-> lastAckSent,
                        laf  |-> largestAccFrame,
                        over |-> <<>>], windowSize)
           ack == NextExpected(st.las, windowSize)
       IN /\ sBuffer' = st.buf
          /\ lastAckSent' = st.las
          /\ largestAccFrame' = st.laf
          /\ acks' = Put(acks, ack)
          /\ sAckOut' = <<ack>>
          /\ sFolded' = sFolded + Len(st.over)
          /\ sFoldCnt' = [s \in DOMAIN sFoldCnt |->
                              sFoldCnt[s] + Occurrences(st.over, s)]
          /\ sAcceptCnt' = IF off > 0
                             THEN [sAcceptCnt EXCEPT ![f[1]] = @ + 1]
                             ELSE sAcceptCnt
          /\ IF off <= 0
               THEN /\ msgToAck' = msgToAck
                    /\ spc' = "recv"
               ELSE /\ msgToAck' = msgToAck + 1
                    /\ spc' = IF msgToAck + 1 < max THEN "recv" ELSE "done"
    /\ sReceived' = sReceived \cup (IF f[2] = NoMsg THEN {} ELSE {f[2]})
    /\ UNCHANGED <<params, plan, clientVars>>

\* ------------------------------------------- sliding window: the system
\* Both functions have been called with the same max > 0 and the same
\* windowSize > 0, their locals are initialised and nothing has been sent.
InitWindow ==
    /\ max \in 1..MaxMsgs
    /\ windowSize \in 1..MaxWindow
    /\ frames = {}
    /\ acks = {}
    /\ cpc = "loop"
    /\ msgNum = 0
    /\ retrans = 0
    /\ seqNum = 1
    /\ lastAckRec = 0
    /\ lastFrameSent = 0
    /\ cBuffer = [i \in 0 .. ((windowSize + 1) * max - 1) |-> <<>>]
    /\ spc = "recv"
    /\ msgToAck = 0
    /\ lastAckSent = SeqRange(windowSize) - 1
    /\ largestAccFrame = windowSize - 1
    /\ sBuffer = [s \in Ring(windowSize) |-> FALSE]
    /\ cSent = 0
    /\ cReleased = 0
    /\ sReceived = {}
    /\ sFolded = 0
    /\ sAcceptCnt = [s \in Ring(windowSize) |-> 0]
    /\ sFoldCnt = [s \in Ring(windowSize) |-> 0]
    /\ sAckOut = <<>>
    /\ lossPlan = <<0, 0>>

\* The transport loses, duplicates and reorders.
NextWindow ==
    \/ WClientTimeout
    \/ \E a \in acks, keep \in BOOLEAN : WClientWaitAck(a, keep)
    \/ WClientSend
    \/ \E a \in acks, keep \in BOOLEAN : WClientPostAck(a, keep)
    \/ WClientPostNoAck
    \/ \E f \in frames, keep \in BOOLEAN : WServerRecv(f, keep)
    \/ \E f \in frames : LoseFrame(f)
    \/ \E a \in acks : LoseAck(a)

SpecWindow == InitWindow /\ [][NextWindow]_vars

\* The transport loses and reorders, and duplicates nothing.
NextWindowLossy ==
    \/ WClientTimeout
    \/ \E a \in acks : WClientWaitAck(a, FALSE)
    \/ WClientSend
    \/ \E a \in acks : WClientPostAck(a, FALSE)
    \/ WClientPostNoAck
    \/ \E f \in frames : WServerRecv(f, FALSE)
    \/ \E f \in frames : LoseFrame(f)
    \/ \E a \in acks : LoseAck(a)

\* Both processes keep running, the timer expires when nothing arrives, and
\* a datagram that is in flight again and again is delivered at last.
LiveWindow ==
    /\ InitWindow
    /\ [][NextWindowLossy]_vars
    /\ WF_vars(WClientTimeout)
    /\ WF_vars(WClientSend)
    /\ WF_vars(WClientPostNoAck \/ \E a \in acks : WClientPostAck(a, FALSE))
    /\ SF_vars(\E a \in acks : WClientWaitAck(a, FALSE))
    /\ SF_vars(\E f \in frames : WServerRecv(f, FALSE))

\* ----------------------------------------------------------------- claims
\* The lowest message index in 0 .. max whose frame the server has not
\* received (max when it has received them all).
LowestMissing == CHOOSE n \in 0 .. max :
                    /\ n \notin sReceived \/ n = max
                    /\ \A k \in 0 .. (n - 1) : k \in sReceived

\* C1, as claimed: over a transport that loses datagrams but not a
\* repeatedly sent one forever, clientSlidingWindow and serverEarlyRetrans
\* both return at last.
C1_BothReturn == <>(cpc = "done" /\ spc = "done")

\* C2, as claimed: over a transport that loses datagrams but not a
\* repeatedly sent one forever, clientStopWait and serverReliable both
\* return at last.
C2_BothReturn == <>(cpc = "done" /\ spc = "done")

\* C3, as claimed: when clientSlidingWindow has returned, all max messages
\* have been sent and none is outstanding: lastAckRec equals lastFrameSent.
C3_ReturnsAcknowledged ==
    cpc = "done" => (cSent = max /\ lastAckRec = lastFrameSent)

\* C4, as claimed: serverEarlyRetrans returns only after it has received
\* every one of the messages 0 .. max-1 (a frame delivered again is not
\* counted again).
C4_CountsDistinct ==
    spc = "done" => \A n \in 0 .. (max - 1) : n \in sReceived

\* C5, as claimed: the messages clientSlidingWindow treats as acknowledged
\* are never more than those serverEarlyRetrans has folded into lastAckSent.
C5_NoStaleAdvance == cReleased <= sFolded

\* C6, as claimed: every message index below the number of positions
\* lastAckSent has advanced over has been received.
C6_NoGapMessages == \A n \in 0 .. (sFolded - 1) : n \in sReceived

\* C6, amended: lastAckSent advances over a sequence number only as often as
\* a frame carrying that sequence number was received inside the acceptance
\* window, and it stands on the position its advances add up to.
C6_NoGapSequence ==
    /\ \A s \in DOMAIN sFoldCnt : sFoldCnt[s] <= sAcceptCnt[s]
    /\ windowSize > 0 =>
         lastAckSent = (2 * windowSize + sFolded) % (2 * windowSize + 1)

\* C6: lastAckSent has advanced twice and a frame received out of order is
\* marked beyond a gap, waiting to be folded.
C6_Witness ==
    /\ sFolded >= 2
    /\ \E s \in DOMAIN sFoldCnt : sAcceptCnt[s] > sFoldCnt[s]
    /\ ~sBuffer[(lastAckSent + 1) % (2 * windowSize + 1)]

\* C7, as claimed: the frames sent and not yet released by an accepted
\* acknowledgment are never more than windowSize (a message is sent only
\* from a state with fewer).
C7_WindowBound == cSent - cReleased <= windowSize

\* C8, as claimed: clientStopWait has left the loop of message n only if
\* serverReliable has received a frame of message n.
C8_ConfirmedDelivery == \A n \in 0 .. (msgNum - 1) : n \in sReceived

\* C9, as claimed: a receive step of serverReliable advances the expected
\* index exactly when the bit of the frame it received equals the index mod
\* 2, and acknowledges the frame either way.
C9_AdvancesOnExpectedBit ==
    [][\A f \in frames, keep \in BOOLEAN :
         SWServerRecv(f, keep) =>
             /\ (msgToAck' = msgToAck + 1) <=> (f[1] = msgToAck % 2)
             /\ (msgToAck' = msgToAck) <=> (f[1] # msgToAck % 2)
             /\ sAckOut' = <<f[1]>>]_vars

\* C10, as claimed: the acknowledgment a receive step sends is the sequence
\* number of the lowest-numbered message not yet received.
C10_AckIsLowestMissing ==
    sAckOut # <<>> => sAckOut = <<LowestMissing % (2 * windowSize + 1)>>

\* C10, amended: the one acknowledgment of a receive step is
\* (lastAckSent + 1) mod (2*windowSize + 1) as it stands after folding, which
\* is the number of positions folded so far mod (2*windowSize + 1): the
\* sequence number that follows the last folded one.
C10_AckIsNextExpected ==
    sAckOut # <<>> /\ windowSize > 0 =>
        /\ sAckOut = <<(lastAckSent + 1) % (2 * windowSize + 1)>>
        /\ sAckOut = <<sFolded % (2 * windowSize + 1)>>

\* C10: a receive step has acknowledged after lastAckSent went once round
\* the ring, so that the acknowledgment is a wrapped sequence number.
C10_Witness ==
    /\ windowSize > 0
    /\ sAckOut # <<>>
    /\ sFolded >= 2 * windowSize + 1

\* Frame f is a copy of a message the server has received and whose
\* position lastAckSent has advanced over.
AlreadyAcknowledged(f) == f[2] \in sReceived /\ f[2] < sFolded

\* What C11 says of a receive step: the frame is discarded and the step
\* changes nothing of the receiver but repeats its last acknowledgment.
Discarded(f) ==
    /\ FrameOffset(f[1], largestAccFrame, windowSize) <= 0
    /\ lastAckSent' = lastAckSent
    /\ largestAccFrame' = largestAccFrame
    /\ sBuffer' = sBuffer
    /\ msgToAck' = msgToAck
    /\ sAckOut' = sAckOut

\* C11, as claimed: a receive step of serverEarlyRetrans on a copy of an
\* already acknowledged frame discards it (offset <= 0), leaves lastAckSent,
\* largestAccFrame, the occupancy map and the message count unchanged and
\* sends the acknowledgment value it sent last.
C11_DuplicateDiscarded ==
    [][\A f \in frames, keep \in BOOLEAN :
         (WServerRecv(f, keep) /\ AlreadyAcknowledged(f)) => Discarded(f)]_vars

\* C11, amended: the same for a copy of one of the windowSize + 1 messages
\* acknowledged last, those whose sequence numbers lie outside the
\* acceptance window.
C11_RecentDuplicateDiscarded ==
    [][\A f \in frames, keep \in BOOLEAN :
         (/\ WServerRecv(f, keep)
          /\ AlreadyAcknowledged(f)
          /\ f[2] >= sFolded - (windowSize + 1)) => Discarded(f)]_vars

\* C11: windowSize + 1 messages or more are acknowledged, a copy of one of
\* the last windowSize + 1 is in flight, and the receive step that takes it
\* discards it.
C11_Witness ==
    /\ sFolded >= windowSize + 1
    /\ ENABLED (\E f \in frames :
                   /\ WServerRecv(f, FALSE)
                   /\ AlreadyAcknowledged(f)
                   /\ f[2] >= sFolded - (windowSize + 1)
                   /\ Discarded(f))

\* C12, as claimed: counted without wraparound, the receiver's lastAckSent
\* (sFolded positions from its start) and the sender's trailing edge
\* lastAckRec (cReleased positions from its start) never move backward.
C12_NeverBackward ==
    [][sFolded' >= sFolded /\ cReleased' >= cReleased]_vars

\* C13, as claimed: in a session with max = 3 whose only anomaly is the loss,
\* once, of the acknowledgment of message 1, clientStopWait returns, with
\* retrans = 1; retrans changes only when message 1 is sent again, and
\* every send of message 1 after the first (the server has received the
\* message by then) takes retrans from 0 to 1, so that there is one.
C13_ResendsOnce ==
    /\ (max = 3 /\ lossPlan = <<1, 1>>) => <>(cpc = "done")
    /\ []((max = 3 /\ lossPlan[1] = 1 /\ cpc = "done") => retrans = 1)
    /\ [][(max = 3 /\ lossPlan[1] = 1) =>
            /\ (retrans' # retrans) =>
                   StopWaitFrame(1) \in (frames' \ frames)
            /\ (StopWaitFrame(1) \in (frames' \ frames) /\ 1 \in sReceived) =>
                   (retrans = 0 /\ retrans' = 1)]_vars

\* C13: the session of the claim has ended: clientStopWait has returned
\* after the planned loss happened.
C13_Witness ==
    /\ max = 3
    /\ lossPlan = <<1, 0>>
    /\ cpc = "done"
    /\ retrans = 1

\* C14, as claimed: wherever clientSlidingWindow is about to call
\* ackAdvance, the int it passes is read from the slot of ring index
\* (lastAckRec + 1) mod (windowSize + 1), one of the windowSize + 1 slots of
\* buffer, which holds the sequence number of a frame that was sent.
C14_ArgumentSlot ==
    LET slot == CRem(lastAckRec + 1, windowSize + 1) * max
        sane(idx) == /\ idx = slot
                     /\ idx \in DOMAIN cBuffer
                     /\ cBuffer[idx] # <<>>
    IN /\ (cpc = "loop" /\ WindowFull(lastAckRec, lastFrameSent, windowSize))
             => sane(WaitIndex(lastAckRec, max))
       /\ cpc = "sent" => sane(PostIndex(lastAckRec, windowSize, max))

\* What C15 says ackAdvance returns for acknowledgment a: the distance
\* (a - lastSeqRec) mod (2*windowSize + 1) when a is one of lastSeqRec + 1
\* .. lastSeqRec + windowSize modulo 2*windowSize + 1, and 0 otherwise.
ClaimedAdvance(a, lastSeqRec, w) ==
    IF \E k \in 1 .. w : a = (lastSeqRec + k) % (2 * w + 1)
    THEN (a - lastSeqRec) % (2 * w + 1)
    ELSE 0

\* C15, as claimed: wherever clientSlidingWindow is about to call ackAdvance
\* and an acknowledgment a is there, whatever int the call passes as
\* lastSeqRec, ackAdvance returns the claimed distance, a value in
\* 0 .. windowSize.
C15_ReturnsDistance ==
    LET idx == IF cpc = "sent" THEN PostIndex(lastAckRec, windowSize, max)
               ELSE WaitIndex(lastAckRec, max)
        called == \/ cpc = "sent"
                  \/ /\ cpc = "loop"
                     /\ WindowFull(lastAckRec, lastFrameSent, windowSize)
    IN called =>
         \A a \in acks : \A g \in BufRead(cBuffer, idx, windowSize) :
             /\ AckAdvance(a, g, windowSize) = ClaimedAdvance(a, g, windowSize)
             /\ AckAdvance(a, g, windowSize) \in 0 .. windowSize

\* C16, as claimed: a timeout of clientSlidingWindow with the window full
\* counts one retransmission for each outstanding frame and sends each of
\* them again: where the transport was empty (it holds them all), a frame
\* with the sequence number stored in each outstanding slot is in flight
\* after the step.
C16_GoBackN ==
    [][WClientTimeout =>
         LET n == ResendCount(lastAckRec, lastFrameSent, windowSize)
             stored(i) == cBuffer[ResendIndex(lastAckRec, i, windowSize, max)]
         IN /\ n = windowSize
            /\ retrans' = Bump(retrans, n)
            /\ (frames = {} /\ n <= MaxInFlight) =>
                 \A i \in 1 .. n :
                     stored(i) # <<>> =>
                         \E f \in frames' : f[1] = stored(i)[1]]_vars

\* Sequence number s has been received inside the acceptance window and
\* lastAckSent has not advanced over it since: s is one of lastAckSent + 1
\* .. lastAckSent + windowSize, accepted more often than folded.
ReceivedNotFolded(s) ==
    /\ \E k \in 1 .. windowSize : s = (lastAckSent + k) % (2 * windowSize + 1)
    /\ sAcceptCnt[s] > sFoldCnt[s]

\* C17, as claimed: between receive steps the occupancy map is true only at
\* sequence numbers received and not yet folded; the slot at lastAckSent, as
\* every folded slot, is false.
C17_MapCleared ==
    /\ \A s \in DOMAIN sBuffer : sBuffer[s] => ReceivedNotFolded(s)
    /\ ~sBuffer[lastAckSent]

\* C17, amended: the map is true only at sequence numbers received and not
\* yet folded and at lastAckSent itself, where it is true as soon as
\* lastAckSent has advanced: the fold loop clears the slot it leaves, not the
\* one it moves onto. Every other folded slot is false.
C17_MapClearedBehind ==
    /\ \A s \in DOMAIN sBuffer :
         sBuffer[s] => (ReceivedNotFolded(s) \/ s = lastAckSent)
    /\ sBuffer[lastAckSent] <=> sFolded > 0

\* C17: lastAckSent has advanced more than once, its slot is still marked,
\* and a frame received ahead of a gap is marked as well.
C17_Witness ==
    /\ sFolded >= 2
    /\ sBuffer[lastAckSent]
    /\ \E s \in DOMAIN sBuffer : s # lastAckSent /\ sBuffer[s]

\* Sequence number s is one of the windowSize values lastAckSent + 1 ..
\* lastAckSent + windowSize modulo 2*windowSize + 1.
InAcceptanceWindow(s) ==
    \E k \in 1 .. windowSize : s = (lastAckSent + k) % (2 * windowSize + 1)

\* C18, as claimed: a receive step of serverEarlyRetrans finds offset > 0
\* exactly for a frame whose sequence number is in the acceptance window;
\* it marks such a frame (when the step ends its slot is true, unless
\* lastAckSent advanced and the fold loop cleared it) and counts it, and it
\* leaves the map and lastAckSent alone for a frame with any other
\* sequence number.
C18_MarksInWindow ==
    [][\A f \in frames, keep \in BOOLEAN :
         WServerRecv(f, keep) =>
             /\ (FrameOffset(f[1], largestAccFrame, windowSize) > 0)
                    <=> InAcceptanceWindow(f[1])
             /\ InAcceptanceWindow(f[1]) =>
                    /\ sBuffer'[f[1]] \/ sFolded' > sFolded
                    /\ msgToAck' = msgToAck + 1
             /\ ~InAcceptanceWindow(f[1]) =>
                    /\ sBuffer' = sBuffer
                    /\ sFolded' = sFolded
                    /\ msgToAck' = msgToAck]_vars

\* C18: a frame received ahead of a gap stands marked in the acceptance
\* window, and a frame whose sequence number is outside the window is in
\* flight: the receive step that takes it leaves the map as it is.
C18_Witness ==
    /\ sFolded >= 1
    /\ \E s \in DOMAIN sBuffer :
         InAcceptanceWindow(s) /\ sBuffer[s] /\ sAcceptCnt[s] > 0
    /\ ENABLED (\E f \in frames :
                   /\ ~InAcceptanceWindow(f[1])
                   /\ WServerRecv(f, FALSE)
                   /\ sBuffer' = sBuffer)

\* C19, as claimed: the advances clientSlidingWindow applies never add up to
\* more than the messages it has sent: the number of outstanding frames
\* never goes below zero.
C19_NeverOvertakes == cReleased <= cSent

\* C20, as claimed: between the receive steps of serverEarlyRetrans
\* largestAccFrame is (lastAckSent + windowSize) mod (2*windowSize + 1), and
\* the sequence numbers with a positive offset are exactly the windowSize
\* numbers that follow lastAckSent.
C20_WindowFollowsAck ==
    /\ largestAccFrame = (lastAckSent + windowSize) % (2 * windowSize + 1)
    /\ {s \in 0 .. (2 * windowSize) :
            FrameOffset(s, largestAccFrame, windowSize) > 0}
         = {(lastAckSent + k) % (2 * windowSize + 1) : k \in 1 .. windowSize}

\* C20: lastAckSent has gone once round the ring and the acceptance window
\* wraps past the end of the ring.
C20_Witness ==
    /\ sFolded >= 2 * windowSize + 1
    /\ largestAccFrame < lastAckSent

====
